---- MODULE Spec2Model ----
(***************************************************************************)
(* Model of StarryPy's PluginManager (plugin_manager.py): the loader run   *)
(* twice by __init__ (core directory, then extension directory), the       *)
(* lookup get_by_name, the lifecycle loops activate_plugins and            *)
(* deactivate_plugins, and the dispatcher do().                            *)
(*                                                                         *)
(* Plugin names are sequences of character codes so that str.lower() is    *)
(* computed, not assumed.  Python values returned by plugin commands are   *)
(* the strings "True", "False", "None", "Zero" (a falsy value that is not  *)
(* False, e.g. 0 or "") and "One" (a truthy value that is not True).       *)
(***************************************************************************)
EXTENDS Integers, Sequences, FiniteSets, TLC

VARIABLES plugins, plugin_names, nextId, phase, ld, last, frames

vars == <<plugins, plugin_names, nextId, phase, ld, last, frames>>

(* ---------------------------- bounds ----------------------------------- *)

\* Total number of directory entries listed by the two startup passes.
MaxListed == 3

\* The same total in the runs where two dispatches are not serialized.
MaxRaceListed == 2

(* ---------------------------- names ------------------------------------ *)

NameFoo == <<70, 111, 111>>
NamefooLower == <<102, 111, 111>>
NameFOO == <<70, 79, 79>>
NameB == <<66>>
NameR == <<82>>
NameZz == <<122, 122>>

Names == {NameFoo, NamefooLower, NameFOO, NameB, NameR, NameZz}

\* str.lower() on ASCII: 'A'..'Z' (65..90) map to 'a'..'z'.
Lower(s) == [i \in DOMAIN s |-> IF s[i] \in 65..90 THEN s[i] + 32 ELSE s[i]]

(* ------------------------ the plugin classes --------------------------- *)

NoDepends == [none |-> TRUE]
Depends(l) == [none |-> FALSE, list |-> l]

Commands == {"on_event", "on_chat"}
Protocols == {"p1", "p2"}
Data == {"d"}

\* The classes found in the plugin modules.  base: derives from BasePlugin;
\* init: what the constructor does; cmd: what each command method does when
\* called ("absent": the class has no such attribute; "raise": it raises).
Classes ==
  [ BasePlugin |-> [base |-> TRUE, init |-> "ok", name |-> <<66, 97, 115, 101>>,
                    depends |-> Depends(<<>>),
                    cmd |-> [on_event |-> "absent", on_chat |-> "absent"],
                    activate |-> "ok", deactivate |-> "ok"],
    Helper     |-> [base |-> FALSE, init |-> "ok", name |-> <<72>>,
                    depends |-> NoDepends,
                    cmd |-> [on_event |-> "absent", on_chat |-> "absent"],
                    activate |-> "ok", deactivate |-> "ok"],
    CFoo       |-> [base |-> TRUE, init |-> "ok", name |-> NameFoo,
                    depends |-> NoDepends,
                    cmd |-> [on_event |-> "absent", on_chat |-> "True"],
                    activate |-> "ok", deactivate |-> "ok"],
    Cfoo       |-> [base |-> TRUE, init |-> "ok", name |-> NamefooLower,
                    depends |-> Depends(<<>>),
                    cmd |-> [on_event |-> "None", on_chat |-> "One"],
                    activate |-> "ok", deactivate |-> "ok"],
    CB         |-> [base |-> TRUE, init |-> "ok", name |-> NameB,
                    depends |-> Depends(<<NameFOO>>),
                    cmd |-> [on_event |-> "False", on_chat |-> "None"],
                    activate |-> "ok", deactivate |-> "raise"],
    CR         |-> [base |-> TRUE, init |-> "ok", name |-> NameR,
                    depends |-> NoDepends,
                    cmd |-> [on_event |-> "raise", on_chat |-> "Zero"],
                    activate |-> "raise", deactivate |-> "ok"],
    CNeedy     |-> [base |-> TRUE, init |-> "ok", name |-> NamefooLower,
                    depends |-> Depends(<<NameFOO, NameZz>>),
                    cmd |-> [on_event |-> "True", on_chat |-> "True"],
                    activate |-> "ok", deactivate |-> "ok"],
    CLazy      |-> [base |-> TRUE, init |-> "ImportError", name |-> <<76>>,
                    depends |-> NoDepends,
                    cmd |-> [on_event |-> "absent", on_chat |-> "absent"],
                    activate |-> "ok", deactivate |-> "ok"],
    CBoom      |-> [base |-> TRUE, init |-> "TypeError", name |-> <<75>>,
                    depends |-> NoDepends,
                    cmd |-> [on_event |-> "absent", on_chat |-> "absent"],
                    activate |-> "ok", deactivate |-> "ok"] ]

base_class == "BasePlugin"

(* ------------------------ directory entries ---------------------------- *)

\* What os.listdir can return.  kind: "py" (name ends with ".py"), "dir"
\* (a sub-directory) or "other"; import: the outcome of __import__ of the
\* entry's module name; classes: inspect.getmembers(mod, isclass), in order.
Entries ==
  [ README     |-> [kind |-> "other", import |-> "ok", classes |-> <<>>],
    gone_py    |-> [kind |-> "py", import |-> "ImportError", classes |-> <<>>],
    bad_py     |-> [kind |-> "py", import |-> "SyntaxError", classes |-> <<>>],
    foo_py     |-> [kind |-> "py", import |-> "ok",
                    classes |-> <<"BasePlugin", "CFoo">>],
    foo2       |-> [kind |-> "dir", import |-> "ok", classes |-> <<"Cfoo">>],
    b_py       |-> [kind |-> "py", import |-> "ok",
                    classes |-> <<"CB", "Helper">>],
    r_py       |-> [kind |-> "py", import |-> "ok", classes |-> <<"CR">>],
    needy_py   |-> [kind |-> "py", import |-> "ok", classes |-> <<"CNeedy">>],
    lazy_py    |-> [kind |-> "py", import |-> "ok",
                    classes |-> <<"CFoo", "CLazy", "CR">>],
    boom_py    |-> [kind |-> "py", import |-> "ok", classes |-> <<"CBoom">>] ]

EntryNames == DOMAIN Entries

\* The listings of at most n entries.
Listings(n) == UNION {[1..k -> EntryNames] : k \in 0..n}

(* ------------------------------ lookup --------------------------------- *)

\* A scan that keeps going and returns the last match.
ScanByName_Last(reg, name, i) ==
  LET S == {j \in i..Len(reg) : Lower(reg[j].name) = Lower(name)}
  IN IF S = {} THEN 0 ELSE CHOOSE j \in S : \A k \in S : k <= j

RECURSIVE ScanByName(_, _, _)
\* Position of the first plugin of reg, from position i on, whose lower-cased
\* name equals the lower-cased argument; 0 when the scan falls off the end.
ScanByName(reg, name, i) ==
  IF i > Len(reg) THEN 0
  ELSE IF Lower(reg[i].name) = Lower(name) THEN i
  ELSE ScanByName(reg, name, i + 1)

\* The lookup with the requested name put in the message as given.
get_by_name_RawArg(reg, name) ==
  LET i == ScanByName(reg, name, 1)
  IN IF i # 0
     THEN [status |-> "ok", index |-> i, id |-> reg[i].id]
     ELSE [status |-> "raised", exc |-> "PluginNotFound", arg |-> name]

\* get_by_name: the plugin found, or PluginNotFound with its message argument.
get_by_name(reg, name) ==
  LET i == ScanByName(reg, name, 1)
  IN IF i # 0
     THEN [status |-> "ok", index |-> i, id |-> reg[i].id]
     ELSE [status |-> "raised", exc |-> "PluginNotFound", arg |-> Lower(name)]

(* ------------------------------ loader --------------------------------- *)

EmptyRefs == [d \in {} |-> 0]

NewInstance(cls, id) ==
  [id |-> id, cls |-> cls, name |-> Classes[cls].name,
   depends |-> Classes[cls].depends, plugins |-> EmptyRefs,
   protocol |-> "unset", active |-> FALSE]

RECURSIVE ResolveDepends_NoStore(_, _, _)
\* The dependency loop without the assignment to plugin_instance.plugins.
ResolveDepends_NoStore(inst, deps, reg) ==
  IF deps = <<>> THEN [status |-> "ok", inst |-> inst]
  ELSE LET r == get_by_name(reg, Head(deps))
       IN IF r.status = "raised"
          THEN [status |-> "raised", exc |-> "MissingDependency",
                arg |-> Head(deps)]
          ELSE ResolveDepends_NoStore(inst, Tail(deps), reg)

RECURSIVE ResolveDepends_StoreSelf(_, _, _)
\* The dependency loop storing plugin_instance where dependency_instance
\* was meant.
ResolveDepends_StoreSelf(inst, deps, reg) ==
  IF deps = <<>> THEN [status |-> "ok", inst |-> inst]
  ELSE LET r == get_by_name(reg, Head(deps))
       IN IF r.status = "raised"
          THEN [status |-> "raised", exc |-> "MissingDependency",
                arg |-> Head(deps)]
          ELSE ResolveDepends_StoreSelf(
                 [inst EXCEPT !.plugins = (Head(deps) :> inst.id) @@ inst.plugins],
                 Tail(deps), reg)

RECURSIVE ResolveDepends(_, _, _)
\* The loop over plugin_instance.depends: fills inst.plugins, or stops at the
\* first dependency get_by_name does not find.
ResolveDepends(inst, deps, reg) ==
  IF deps = <<>> THEN [status |-> "ok", inst |-> inst]
  ELSE LET r == get_by_name(reg, Head(deps))
       IN IF r.status = "raised"
          THEN [status |-> "raised", exc |-> "MissingDependency",
                arg |-> Head(deps)]
          ELSE ResolveDepends(
                 [inst EXCEPT !.plugins = (Head(deps) :> r.id) @@ inst.plugins],
                 Tail(deps), reg)

\* issubclass(plugin, self.base_class) and plugin is not self.base_class
Qualifies(cls) == Classes[cls].base /\ cls # base_class

\* The membership test of the deduplication: a case-sensitive comparison
\* against the list plugin_names.
IsDuplicate(inst, names) == \E i \in DOMAIN names : names[i] = inst.name

RECURSIVE LoadClasses(_, _, _, _, _)
\* The loop over the classes of one imported module.  st carries the registry,
\* the instance counter and the record of what happened to each instance.
LoadClasses(classes, reg, names, id, events) ==
  IF classes = <<>>
  THEN [status |-> "ok", plugins |-> reg, nextId |-> id, events |-> events]
  ELSE
    LET cls == Head(classes)
        inst == NewInstance(cls, id)
        ev(o) == [cls |-> cls, id |-> id, regLen |-> Len(reg), outcome |-> o]
    IN IF ~Qualifies(cls)
       THEN LoadClasses(Tail(classes), reg, names, id, events)
       ELSE IF Classes[cls].init # "ok"
       THEN [status |-> "raised", exc |-> Classes[cls].init, arg |-> <<>>,
             plugins |-> reg, nextId |-> id,
             events |-> Append(events, ev("init_failed"))]
       ELSE IF IsDuplicate(inst, names)
       THEN LoadClasses(Tail(classes), reg, names, id + 1,
                        Append(events, ev("duplicate")))
       ELSE
         LET r == IF inst.depends.none
                  THEN [status |-> "ok", inst |-> inst]
                  ELSE ResolveDepends(inst, inst.depends.list, reg)
         IN IF r.status = "raised"
            THEN [status |-> "raised", exc |-> r.exc, arg |-> r.arg,
                  plugins |-> reg, nextId |-> id + 1,
                  events |-> Append(events, ev("missing_dependency"))]
            ELSE LoadClasses(Tail(classes), Append(reg, r.inst), names, id + 1,
                             Append(events, ev("appended")))

\* An except clause that catches every exception.
Caught_All(exc) == TRUE

\* No except clause at all.
Caught_None(exc) == FALSE

\* "except ImportError": the exceptions the loop body's handler catches.
Caught(exc) == exc = "ImportError"

\* One iteration of the loop over os.listdir: the entry filter, the import,
\* the class loop, and the except clause.  failure and failExc record what
\* went wrong in the entry, whether or not it was caught.
LoadEntry(f, reg, names, id) ==
  LET e == Entries[f]
      r == IF e.kind = "other"
           THEN [status |-> "ok", plugins |-> reg, nextId |-> id,
                 events |-> <<>>]
           ELSE IF e.import # "ok"
           THEN [status |-> "raised", exc |-> e.import, arg |-> <<>>,
                 plugins |-> reg, nextId |-> id, events |-> <<>>]
           ELSE LoadClasses(e.classes, reg, names, id, <<>>)
      failure == IF r.status = "ok" THEN "none"
                 ELSE IF e.import # "ok" THEN "import"
                 ELSE IF r.exc = "MissingDependency" THEN "dependency"
                 ELSE "instantiate"
  IN IF r.status = "raised" /\ ~Caught(r.exc)
     THEN [status |-> "raised", exc |-> r.exc, arg |-> r.arg,
           plugins |-> r.plugins, nextId |-> r.nextId, events |-> r.events,
           failure |-> failure, failExc |-> r.exc]
     ELSE [status |-> "ok", plugins |-> r.plugins, nextId |-> r.nextId,
           events |-> r.events, failure |-> failure,
           failExc |-> IF r.status = "raised" THEN r.exc ELSE "none"]

(* ------------------------------ state ---------------------------------- *)

Callers == {1, 2}

IdleLoad ==
  [pass |-> "none", status |-> "idle", todo |-> <<>>, listed |-> 0,
   entry |-> "none", before |-> 0, events |-> <<>>, failure |-> "none",
   failExc |-> "none", exc |-> "none", arg |-> <<>>, coreLen |-> 0,
   skipped |-> 0]

NoCall ==
  [op |-> "none", status |-> "none", name |-> <<>>, value |-> 0,
   exc |-> "none", arg |-> <<>>, hooks |-> <<>>, again |-> FALSE]

IdleFrame ==
  [pc |-> "idle", protocol |-> "unset", command |-> "none", data |-> "none",
   i |-> 0, return_values |-> <<>>, raw |-> <<>>, invoked |-> <<>>,
   pre |-> <<>>, result |-> "none", exc |-> "none", overlap |-> FALSE]

\* The start of PluginManager.__init__: empty lists, no directory loaded yet.
Init ==
  /\ plugins = <<>>
  /\ plugin_names = <<>>
  /\ nextId = 1
  /\ phase = "core"
  /\ ld = IdleLoad
  /\ last = NoCall
  /\ frames = [c \in Callers |-> IdleFrame]

(* ------------------------- startup: load_plugins ----------------------- *)

\* __init__ calls load_plugins(core_plugin_dir), then load_plugins(plugin_dir);
\* os.listdir returns the listing the loop will walk.
LoadStart(dir) ==
  /\ phase \in {"core", "ext"}
  /\ ld.status = "idle"
  /\ Len(dir) <= MaxListed - ld.listed
  /\ ld' = [ld EXCEPT !.pass = phase, !.status = "running", !.todo = dir,
                      !.listed = @ + Len(dir), !.before = Len(plugins)]
  /\ UNCHANGED <<plugins, plugin_names, nextId, phase, last, frames>>

\* The loop iteration in an __init__ that catches what load_plugins raises
\* and goes on with the next directory.
LoadStep_InitContinues ==
  /\ ld.status = "running"
  /\ ld.todo # <<>>
  /\ LET r == LoadEntry(Head(ld.todo), plugins, plugin_names, nextId)
     IN /\ plugins' = r.plugins
        /\ nextId' = r.nextId
        /\ ld' = [ld EXCEPT !.todo = IF r.status = "raised" THEN <<>>
                                     ELSE Tail(@),
                            !.entry = Head(ld.todo),
                            !.before = Len(plugins), !.events = r.events,
                            !.failure = r.failure, !.failExc = r.failExc,
                            !.exc = IF r.status = "raised" THEN r.exc
                                    ELSE "none",
                            !.arg = IF r.status = "raised" THEN r.arg
                                    ELSE <<>>]
  /\ UNCHANGED <<plugin_names, phase, last, frames>>

\* One iteration of "for f in os.listdir(plugin_dir)".  An exception that the
\* except clause does not catch leaves load_plugins and __init__.
LoadStep ==
  /\ ld.status = "running"
  /\ ld.todo # <<>>
  /\ LET r == LoadEntry(Head(ld.todo), plugins, plugin_names, nextId)
     IN /\ plugins' = r.plugins
        /\ nextId' = r.nextId
        /\ ld' = [ld EXCEPT !.todo = Tail(@), !.entry = Head(ld.todo),
                            !.before = Len(plugins), !.events = r.events,
                            !.failure = r.failure, !.failExc = r.failExc,
                            !.skipped = IF r.status = "ok"
                                           /\ r.failure \in {"import",
                                                              "instantiate"}
                                        THEN @ + 1 ELSE @,
                            !.status = IF r.status = "raised" THEN "raised"
                                       ELSE "running",
                            !.exc = IF r.status = "raised" THEN r.exc
                                    ELSE "none",
                            !.arg = IF r.status = "raised" THEN r.arg
                                    ELSE <<>>]
        /\ phase' = IF r.status = "raised" THEN "failed" ELSE phase
  /\ UNCHANGED <<plugin_names, last, frames>>

\* The listing is exhausted: load_plugins returns and __init__ goes on to the
\* extension directory, or returns the constructed manager.
LoadReturn ==
  /\ ld.status = "running"
  /\ ld.todo = <<>>
  /\ phase' = IF ld.pass = "core" THEN "ext" ELSE "ready"
  /\ ld' = [IdleLoad EXCEPT !.listed = ld.listed,
                            !.coreLen = IF ld.pass = "core" THEN Len(plugins)
                                        ELSE ld.coreLen]
  /\ UNCHANGED <<plugins, plugin_names, nextId, last, frames>>

(* ------------------------------ lifecycle ------------------------------ *)

\* No dispatch is between its first and its last statement.
Quiescent == \A c \in Callers : frames[c].pc \notin {"set", "call", "all"}

RECURSIVE RunHooks_Swallow(_, _, _, _)
\* The hook loop with each hook wrapped in a handler that drops exceptions.
RunHooks_Swallow(reg, hook, i, log) ==
  IF i > Len(reg)
  THEN [status |-> "ok", plugins |-> reg, hooks |-> log, exc |-> "none"]
  ELSE IF Classes[reg[i].cls][hook] = "raise"
  THEN RunHooks_Swallow(reg, hook, i + 1, Append(log, reg[i].id))
  ELSE RunHooks_Swallow([reg EXCEPT ![i].active = (hook = "activate")], hook,
                        i + 1, Append(log, reg[i].id))

RECURSIVE RunHooks_DropRaiser(_, _, _, _)
\* The hook loop unloading a plugin whose hook raises.
RunHooks_DropRaiser(reg, hook, i, log) ==
  IF i > Len(reg)
  THEN [status |-> "ok", plugins |-> reg, hooks |-> log, exc |-> "none"]
  ELSE IF Classes[reg[i].cls][hook] = "raise"
  THEN [status |-> "raised",
        plugins |-> SubSeq(reg, 1, i - 1) \o SubSeq(reg, i + 1, Len(reg)),
        hooks |-> Append(log, reg[i].id), exc |-> "HookError"]
  ELSE RunHooks_DropRaiser([reg EXCEPT ![i].active = (hook = "activate")],
                           hook, i + 1, Append(log, reg[i].id))

RECURSIVE RunHooks(_, _, _, _)
\* "for plugin in self.plugins: plugin.<hook>()" from position i on: the hook
\* of each plugin runs in turn until one raises.
RunHooks(reg, hook, i, log) ==
  IF i > Len(reg)
  THEN [status |-> "ok", plugins |-> reg, hooks |-> log, exc |-> "none"]
  ELSE IF Classes[reg[i].cls][hook] = "raise"
  THEN [status |-> "raised", plugins |-> reg,
        hooks |-> Append(log, reg[i].id), exc |-> "HookError"]
  ELSE RunHooks([reg EXCEPT ![i].active = (hook = "activate")], hook, i + 1,
                Append(log, reg[i].id))

Lifecycle(hook) ==
  /\ phase = "ready"
  /\ Quiescent
  /\ LET r == RunHooks(plugins, hook, 1, <<>>)
     IN /\ plugins' = r.plugins
        /\ last' = [NoCall EXCEPT !.op = hook, !.status = r.status,
                                  !.exc = r.exc, !.hooks = r.hooks,
                                  !.again = (last.op = hook)]
  /\ frames' = [c \in Callers |-> IdleFrame]
  /\ UNCHANGED <<plugin_names, nextId, phase, ld>>

activate_plugins == Lifecycle("activate")

deactivate_plugins == Lifecycle("deactivate")

(* ------------------------------- lookup -------------------------------- *)

GetByName(name) ==
  /\ phase = "ready"
  /\ Quiescent
  /\ LET r == get_by_name(plugins, name)
     IN last' = IF r.status = "ok"
                THEN [NoCall EXCEPT !.op = "get_by_name", !.status = "ok",
                                    !.name = name, !.value = r.id]
                ELSE [NoCall EXCEPT !.op = "get_by_name", !.status = "raised",
                                    !.name = name, !.exc = r.exc,
                                    !.arg = r.arg]
  /\ frames' = [c \in Callers |-> IdleFrame]
  /\ UNCHANGED <<plugins, plugin_names, nextId, phase, ld>>

(* ------------------------------ dispatch ------------------------------- *)

\* Python truthiness of the values a command can return.
Truthy(v) == v \in {"True", "One"}

\* all(return_values)
All(vals) == \A i \in DOMAIN vals : Truthy(vals[i])

\* getattr(plugin, command, lambda _: True)(data): the value returned, or
\* "raise"; the default callable stands in for a missing attribute.
CallCommand(p, command, data) ==
  LET m == Classes[p.cls].cmd[command]
  IN IF m = "absent" THEN "True" ELSE m

\* The result used without the None check.
Normalize_Identity(res) == res

\* "if res is None: res = True"
Normalize(res) == IF res = "None" THEN "True" ELSE res

\* do() is entered by caller c: return_values = [] and the loop begins.
DoStart(c, protocol, command, data) ==
  /\ phase = "ready"
  /\ Quiescent
  /\ frames' = [d \in Callers |->
       IF d = c
       THEN [IdleFrame EXCEPT !.pc = IF plugins = <<>> THEN "all" ELSE "set",
                              !.protocol = protocol, !.command = command,
                              !.data = data, !.i = 1,
                              !.pre = [k \in DOMAIN plugins |->
                                         plugins[k].protocol]]
       ELSE IdleFrame]
  /\ last' = NoCall
  /\ UNCHANGED <<plugins, plugin_names, nextId, phase, ld>>

\* The loop step without the assignment to plugin.protocol.
DoSetProtocol_Skip(c) ==
  /\ frames[c].pc = "set"
  /\ frames' = [frames EXCEPT ![c].pc = "call"]
  /\ UNCHANGED <<plugins, plugin_names, nextId, phase, ld, last>>

\* plugin.protocol = protocol
DoSetProtocol(c) ==
  /\ frames[c].pc = "set"
  /\ plugins' = [plugins EXCEPT ![frames[c].i].protocol = frames[c].protocol]
  /\ frames' = [frames EXCEPT ![c].pc = "call"]
  /\ UNCHANGED <<plugin_names, nextId, phase, ld, last>>

\* The call skipped for a plugin that already held this protocol when do()
\* was entered, its earlier answer taken to be an approval.
DoCall_Cached(c) ==
  /\ frames[c].pc = "call"
  /\ LET f == frames[c]
         p == plugins[f.i]
         hit == f.pre[f.i] = f.protocol
         res == IF hit THEN "True" ELSE CallCommand(p, f.command, f.data)
         raw == IF hit THEN "absent" ELSE Classes[p.cls].cmd[f.command]
         seen == [id |-> p.id, protocol |-> p.protocol]
     IN frames' = [frames EXCEPT ![c] =
          IF res = "raise"
          THEN [f EXCEPT !.pc = "raised", !.exc = "CommandError",
                         !.raw = Append(@, raw),
                         !.invoked = Append(@, seen)]
          ELSE [f EXCEPT !.pc = IF f.i = Len(plugins) THEN "all" ELSE "set",
                         !.i = @ + 1,
                         !.raw = Append(@, raw),
                         !.invoked = Append(@, seen),
                         !.return_values = Append(@, Normalize(res))]]
  /\ UNCHANGED <<plugins, plugin_names, nextId, phase, ld, last>>

\* The loop left at the first result that is not truthy.
DoCall_ShortCircuit(c) ==
  /\ frames[c].pc = "call"
  /\ LET f == frames[c]
         p == plugins[f.i]
         res == CallCommand(p, f.command, f.data)
         seen == [id |-> p.id, protocol |-> p.protocol]
     IN frames' = [frames EXCEPT ![c] =
          IF res = "raise"
          THEN [f EXCEPT !.pc = "raised", !.exc = "CommandError",
                         !.raw = Append(@, Classes[p.cls].cmd[f.command]),
                         !.invoked = Append(@, seen)]
          ELSE [f EXCEPT !.pc = IF f.i = Len(plugins)
                                   \/ ~Truthy(Normalize(res))
                                THEN "all" ELSE "set",
                         !.i = @ + 1,
                         !.raw = Append(@, Classes[p.cls].cmd[f.command]),
                         !.invoked = Append(@, seen),
                         !.return_values = Append(@, Normalize(res))]]
  /\ UNCHANGED <<plugins, plugin_names, nextId, phase, ld, last>>

\* The command called only on plugins whose activate() has run.
DoCall_ActiveOnly(c) ==
  /\ frames[c].pc = "call"
  /\ LET f == frames[c]
         p == plugins[f.i]
         res == IF p.active THEN CallCommand(p, f.command, f.data) ELSE "True"
         seen == [id |-> p.id, protocol |-> p.protocol]
     IN frames' = [frames EXCEPT ![c] =
          IF res = "raise"
          THEN [f EXCEPT !.pc = "raised", !.exc = "CommandError",
                         !.raw = Append(@, Classes[p.cls].cmd[f.command]),
                         !.invoked = Append(@, seen)]
          ELSE [f EXCEPT !.pc = IF f.i = Len(plugins) THEN "all" ELSE "set",
                         !.i = @ + 1,
                         !.raw = IF p.active
                                 THEN Append(@, Classes[p.cls].cmd[f.command])
                                 ELSE @,
                         !.invoked = IF p.active THEN Append(@, seen) ELSE @,
                         !.return_values = Append(@, Normalize(res))]]
  /\ UNCHANGED <<plugins, plugin_names, nextId, phase, ld, last>>

\* The call wrapped in a handler that turns an exception into a veto.
DoCall_Swallow(c) ==
  /\ frames[c].pc = "call"
  /\ LET f == frames[c]
         p == plugins[f.i]
         res == CallCommand(p, f.command, f.data)
         seen == [id |-> p.id, protocol |-> p.protocol]
     IN frames' = [frames EXCEPT ![c] =
          [f EXCEPT !.pc = IF f.i = Len(plugins) THEN "all" ELSE "set",
                    !.i = @ + 1,
                    !.raw = Append(@, Classes[p.cls].cmd[f.command]),
                    !.invoked = Append(@, seen),
                    !.return_values = Append(@, IF res = "raise" THEN "False"
                                                ELSE Normalize(res))]]
  /\ UNCHANGED <<plugins, plugin_names, nextId, phase, ld, last>>

\* The call of the command, the normalisation of its result and the append;
\* an exception raised by the command leaves do().
DoCall(c) ==
  /\ frames[c].pc = "call"
  /\ LET f == frames[c]
         p == plugins[f.i]
         res == CallCommand(p, f.command, f.data)
         seen == [id |-> p.id, protocol |-> p.protocol]
     IN frames' = [frames EXCEPT ![c] =
          IF res = "raise"
          THEN [f EXCEPT !.pc = "raised", !.exc = "CommandError",
                         !.raw = Append(@, Classes[p.cls].cmd[f.command]),
                         !.invoked = Append(@, seen)]
          ELSE [f EXCEPT !.pc = IF f.i = Len(plugins) THEN "all" ELSE "set",
                         !.i = @ + 1,
                         !.raw = Append(@, Classes[p.cls].cmd[f.command]),
                         !.invoked = Append(@, seen),
                         !.return_values = Append(@, Normalize(res))]]
  /\ UNCHANGED <<plugins, plugin_names, nextId, phase, ld, last>>

\* return all(return_values)
DoReturn(c) ==
  /\ frames[c].pc = "all"
  /\ frames' = [frames EXCEPT ![c].pc = "returned",
                              ![c].result = IF All(frames[c].return_values)
                                            THEN "True" ELSE "False"]
  /\ UNCHANGED <<plugins, plugin_names, nextId, phase, ld, last>>

(* -------------------------- repeated dispatch -------------------------- *)

\* do() called again by caller c with the arguments of the call that has just
\* returned; last keeps the result of that first call.
DoRepeat(c) ==
  /\ phase = "ready"
  /\ frames[c].pc = "returned"
  /\ frames' = [d \in Callers |->
       IF d = c
       THEN [IdleFrame EXCEPT !.pc = IF plugins = <<>> THEN "all" ELSE "set",
                              !.protocol = frames[c].protocol,
                              !.command = frames[c].command,
                              !.data = frames[c].data, !.i = 1,
                              !.pre = [k \in DOMAIN plugins |->
                                         plugins[k].protocol]]
       ELSE IdleFrame]
  /\ last' = [NoCall EXCEPT !.op = "do", !.status = frames[c].result]
  /\ UNCHANGED <<plugins, plugin_names, nextId, phase, ld>>

(* ----------------------- unserialized dispatch ------------------------- *)

InProgress(c) == frames[c].pc \in {"set", "call", "all"}

\* Each network session dispatches with its own protocol object.
ProtocolOf(c) == IF c = 1 THEN "p1" ELSE "p2"

\* do() entered by caller c while another caller may be inside do(): nothing
\* in do() waits for the other call.  Each caller makes one call; overlap
\* records that the two calls were in progress at the same time.
DoStartRace(c, command, data) ==
  /\ phase = "ready"
  /\ frames[c].pc = "idle"
  /\ LET busy == \E d \in Callers \ {c} : InProgress(d)
     IN frames' = [d \in Callers |->
          IF d = c
          THEN [IdleFrame EXCEPT !.pc = IF plugins = <<>> THEN "all"
                                        ELSE "set",
                                 !.protocol = ProtocolOf(c),
                                 !.command = command, !.data = data, !.i = 1,
                                 !.pre = [k \in DOMAIN plugins |->
                                            plugins[k].protocol],
                                 !.overlap = busy]
          ELSE IF InProgress(d) THEN [frames[d] EXCEPT !.overlap = TRUE]
          ELSE frames[d]]
  /\ UNCHANGED <<plugins, plugin_names, nextId, phase, ld, last>>

(* --------------------------- specification ----------------------------- *)

Next ==
  \/ /\ ld.status = "idle"
     /\ \E dir \in Listings(MaxListed - ld.listed) : LoadStart(dir)
  \/ LoadStep
  \/ LoadReturn
  \/ activate_plugins
  \/ deactivate_plugins
  \/ \E name \in Names : GetByName(name)
  \/ \E c \in Callers, protocol \in Protocols, command \in Commands,
        data \in Data : DoStart(c, protocol, command, data)
  \/ \E c \in Callers : DoSetProtocol(c)
  \/ \E c \in Callers : DoCall(c)
  \/ \E c \in Callers : DoReturn(c)

Spec == Init /\ [][Next]_vars

\* Startup followed by dispatches that callers do not serialize.
NextRace ==
  \/ /\ ld.status = "idle"
     /\ \E dir \in Listings(MaxRaceListed - ld.listed) : LoadStart(dir)
  \/ LoadStep
  \/ LoadReturn
  \/ \E c \in Callers, command \in Commands, data \in Data :
        DoStartRace(c, command, data)
  \/ \E c \in Callers : DoSetProtocol(c)
  \/ \E c \in Callers : DoCall(c)
  \/ \E c \in Callers : DoReturn(c)

SpecRace == Init /\ [][NextRace]_vars

\* Startup followed by serialized dispatches, each of which may be repeated.
NextRepeat ==
  \/ /\ ld.status = "idle"
     /\ \E dir \in Listings(MaxListed - ld.listed) : LoadStart(dir)
  \/ LoadStep
  \/ LoadReturn
  \/ \E c \in Callers, protocol \in Protocols, command \in Commands,
        data \in Data : DoStart(c, protocol, command, data)
  \/ \E c \in Callers : DoRepeat(c)
  \/ \E c \in Callers : DoSetProtocol(c)
  \/ \E c \in Callers : DoCall(c)
  \/ \E c \in Callers : DoReturn(c)

SpecRepeat == Init /\ [][NextRepeat]_vars

(* ------------------------ vocabulary of the claims --------------------- *)

Matches(p, name) == Lower(p.name) = Lower(name)

\* Position i holds the earliest-loaded plugin of reg that matches name.
FirstMatch(reg, name, i) ==
  /\ i \in DOMAIN reg
  /\ Matches(reg[i], name)
  /\ \A j \in 1..(i - 1) : ~Matches(reg[j], name)

HasMatch(reg, name) == \E i \in DOMAIN reg : Matches(reg[i], name)

\* C1: the Registry holds at most one plugin per lower-cased name.
C1_OnePerName ==
  \A i, j \in DOMAIN plugins :
    Lower(plugins[i].name) = Lower(plugins[j].name) => i = j

\* C2: for every Registry plugin P and every d in P.depends, P.plugins[d] is
\* defined and is the instance the lookup of d returns (the earliest-loaded
\* match), from the moment P is appended and in every later state.
C2_RefsAreLookups ==
  \A i \in DOMAIN plugins :
    LET P == plugins[i]
    IN ~P.depends.none =>
         \A k \in DOMAIN P.depends.list :
           LET d == P.depends.list[k]
           IN /\ d \in DOMAIN P.plugins
              /\ \E j \in DOMAIN plugins :
                   /\ FirstMatch(plugins, d, j)
                   /\ plugins[j].id = P.plugins[d]

C2_Witness ==
  /\ phase = "ready"
  /\ \E c \in Callers : frames[c].pc = "returned"
  /\ \E i, j \in DOMAIN plugins :
       /\ i < j
       /\ plugins[i].cls = "CB"
       /\ Matches(plugins[j], NameFOO)

\* The registry as it was when the instance of event e was being loaded.
RegistryAt(e) == SubSeq(plugins, 1, e.regLen)

\* Positions in the depends list of e's class with no match at that moment.
Unmatched(e) ==
  IF Classes[e.cls].depends.none THEN {}
  ELSE {k \in DOMAIN Classes[e.cls].depends.list :
          ~HasMatch(RegistryAt(e), Classes[e.cls].depends.list[k])}

C3_State ==
  \A n \in DOMAIN ld.events :
    LET e == ld.events[n]
    IN (e.outcome \in {"appended", "missing_dependency"} /\ Unmatched(e) # {})
       => /\ ld.status = "raised"
          /\ phase = "failed"
          /\ ld.exc = "MissingDependency"
          /\ \E k \in Unmatched(e) :
               /\ \A m \in Unmatched(e) : k <= m
               /\ ld.arg = Classes[e.cls].depends.list[k]
          /\ n = Len(ld.events)
          /\ Len(plugins) = e.regLen
          /\ \A j \in DOMAIN plugins : plugins[j].id # e.id

\* C3: a plugin with a dependency that has no case-insensitive match in the
\* Registry at that moment makes load raise MissingDependency(that name); the
\* dependent is not appended, the plugins appended before keep their
\* positions, and nothing of the listing is processed afterwards.
C3_MissingDependencyAborts ==
  [][ /\ C3_State'
      /\ (ld'.status = "raised" /\ ld.status # "raised")
           => SubSeq(plugins', 1, Len(plugins)) = plugins
      /\ ld.status = "raised" => UNCHANGED <<plugins, nextId, ld, phase>> ]_vars

C3_Witness ==
  /\ ld.status = "raised"
  /\ ld.exc = "MissingDependency"
  /\ ld.arg = NameZz
  /\ ld.todo # <<>>
  /\ Len(plugins) >= 1

\* C4 as stated: no failure to import or to instantiate a candidate makes
\* load raise.
C4_AnyFailureSwallowed ==
  ld.failure \in {"import", "instantiate"} => ld.status # "raised"

\* C4 amended: an ImportError raised by the import or by a constructor is
\* caught, the rest of that candidate is skipped and the loop goes on; any
\* other exception they raise leaves load.
C4_ImportErrorSwallowed ==
  ld.failure \in {"import", "instantiate"} =>
    IF ld.failExc = "ImportError"
    THEN /\ ld.status = "running"
         /\ phase \in {"core", "ext"}
         /\ Len(plugins) >= ld.before
    ELSE /\ ld.status = "raised"
         /\ ld.exc = ld.failExc
         /\ phase = "failed"

C4_Witness ==
  /\ ld.skipped > 0
  /\ ld.failure = "none"
  /\ ld.status = "running"
  /\ \E n \in DOMAIN ld.events : ld.events[n].outcome = "appended"

\* C5 as stated: the result is false exactly when some plugin's command
\* returned False.
C5_FalseIffExplicitFalse ==
  \A c \in Callers :
    frames[c].pc = "returned" =>
      (frames[c].result = "False"
         <=> \E i \in DOMAIN frames[c].raw : frames[c].raw[i] = "False")

\* C5 amended: the result is false exactly when some plugin's command
\* returned a falsy value other than None (False, 0, an empty string ...);
\* a missing method or a returned None never lowers the result.
C5_FalseIffFalsy ==
  \A c \in Callers :
    frames[c].pc = "returned" =>
      /\ Len(frames[c].raw) = Len(plugins)
      /\ frames[c].result \in {"True", "False"}
      /\ frames[c].result = "False"
           <=> \E i \in DOMAIN frames[c].raw :
                 frames[c].raw[i] \in {"False", "Zero"}

C5_Witness ==
  \E c \in Callers :
    /\ frames[c].pc = "returned"
    /\ frames[c].result = "False"
    /\ \A i \in DOMAIN frames[c].raw : frames[c].raw[i] # "False"
    /\ \E i, j \in DOMAIN frames[c].raw :
         /\ frames[c].raw[i] = "Zero"
         /\ frames[c].raw[j] = "One"

\* C6: after a dispatch returns, every plugin's protocol field is the
\* protocol of that call; and every command was invoked with the field
\* already set to it.
C6_ProtocolSet ==
  \A c \in Callers :
    /\ frames[c].pc = "returned" =>
         \A i \in DOMAIN plugins : plugins[i].protocol = frames[c].protocol
    /\ \A k \in DOMAIN frames[c].invoked :
         frames[c].invoked[k].protocol = frames[c].protocol

C6_Witness ==
  \E c \in Callers :
    /\ frames[c].pc = "returned"
    /\ Len(plugins) = 3
    /\ \E i \in DOMAIN frames[c].raw : frames[c].raw[i] = "absent"
    /\ \E i \in DOMAIN frames[c].pre : frames[c].pre[i] \notin
                                         {"unset", frames[c].protocol}

\* C7: a successful lookup returns the earliest-loaded plugin whose
\* lower-cased name equals the lower-cased argument.
C7_FirstMatchReturned ==
  (last.op = "get_by_name" /\ last.status = "ok") =>
    \E i \in DOMAIN plugins :
      /\ FirstMatch(plugins, last.name, i)
      /\ plugins[i].id = last.value

C7_Witness ==
  /\ last.op = "get_by_name"
  /\ last.status = "ok"
  /\ last.name = NameFOO
  /\ Cardinality({i \in DOMAIN plugins : Matches(plugins[i], NameFOO)}) >= 2

\* C8: the lookup raises PluginNotFound, carrying the lower-cased argument,
\* exactly when no plugin matches; the Registry is left as it was.
C8_State ==
  last.op = "get_by_name" =>
    /\ last.status = "raised" <=> ~HasMatch(plugins, last.name)
    /\ last.status = "raised" =>
         /\ last.exc = "PluginNotFound"
         /\ last.arg = Lower(last.name)

C8_NotFound ==
  [][ /\ C8_State'
      /\ last'.op = "get_by_name" => plugins' = plugins ]_vars

C8_Witness ==
  /\ last.op = "get_by_name"
  /\ last.status = "raised"
  /\ last.name = NameB
  /\ last.arg = <<98>>
  /\ plugins # <<>>

\* The positions whose hook raises.
Raisers(hook) == {i \in DOMAIN plugins : Classes[plugins[i].cls][hook] = "raise"}

\* C9: the hooks run in load order; when the hook at position i raises, the
\* call raises, no later hook runs, and the earlier plugins keep the effect.
C9_LifecycleFailFast ==
  last.op \in {"activate", "deactivate"} =>
    /\ \A k \in DOMAIN last.hooks :
         k \in DOMAIN plugins /\ last.hooks[k] = plugins[k].id
    /\ IF Raisers(last.op) = {}
       THEN /\ last.status = "ok"
            /\ Len(last.hooks) = Len(plugins)
       ELSE /\ last.status = "raised"
            /\ Len(last.hooks) \in Raisers(last.op)
            /\ \A i \in Raisers(last.op) : Len(last.hooks) <= i
    /\ \A k \in DOMAIN last.hooks :
         (last.status = "ok" \/ k < Len(last.hooks))
           => plugins[k].active = (last.op = "activate")

C9_Witness ==
  /\ last.op = "activate"
  /\ last.status = "raised"
  /\ Len(last.hooks) = 2
  /\ Len(plugins) = 3
  /\ plugins[1].active

\* C10: when a command raises, the dispatch raises without a result, no
\* later plugin is invoked, later plugins keep the protocol they had before
\* the call, and the raising plugin and the earlier ones hold the new one.
C10_RaisingCommand ==
  \A c \in Callers :
    LET f == frames[c]
    IN /\ \A k \in DOMAIN f.raw :
            f.raw[k] = "raise" => (f.pc = "raised" /\ k = Len(f.raw))
       /\ f.pc = "raised" =>
            /\ f.result = "none"
            /\ f.raw[Len(f.raw)] = "raise"
            /\ Len(f.invoked) = f.i
            /\ \A k \in DOMAIN f.invoked : f.invoked[k].id = plugins[k].id
            /\ \A k \in DOMAIN plugins :
                 plugins[k].protocol = IF k <= f.i THEN f.protocol
                                       ELSE f.pre[k]

C10_Witness ==
  \E c \in Callers :
    /\ frames[c].pc = "raised"
    /\ frames[c].i = 2
    /\ Len(plugins) = 3
    /\ plugins[3].protocol \notin {"unset", frames[c].protocol}

\* C11: a command is invoked while the plugin's protocol field holds another
\* dispatch's reference only when the two dispatches were in progress at the
\* same time (the witness shows such a state is reached); a dispatch that
\* overlapped no other one invokes every command with its own reference.
C11_RaceOnlyWhenInterleaved ==
  \A c \in Callers :
    \A k \in DOMAIN frames[c].invoked :
      frames[c].invoked[k].protocol # frames[c].protocol =>
        /\ frames[c].overlap
        /\ \E d \in Callers \ {c} :
             frames[c].invoked[k].protocol = ProtocolOf(d)

C11_Witness ==
  \E c \in Callers :
    \E k \in DOMAIN frames[c].invoked :
      /\ frames[c].invoked[k].protocol \in Protocols \ {frames[c].protocol}
      /\ frames[c].overlap

\* C12: a dispatch repeated with the same protocol, command and data does not
\* raise, returns the result of the first call, and leaves every protocol
\* field and the Registry as the first call left them.
C12_RepeatedDispatch ==
  last.op = "do" =>
    \A c \in Callers :
      /\ frames[c].pc # "raised"
      /\ frames[c].pc = "returned" =>
           /\ frames[c].result = last.status
           /\ Len(plugins) = Len(frames[c].pre)
           /\ \A k \in DOMAIN plugins :
                plugins[k].protocol = frames[c].pre[k]

C12_Witness ==
  /\ last.op = "do"
  /\ last.status = "False"
  /\ Len(plugins) >= 2
  /\ \E c \in Callers :
       /\ frames[c].pc = "returned"
       /\ frames[c].result = "False"
       /\ \E k \in DOMAIN frames[c].raw : frames[c].raw[k] = "False"

\* Position i was appended by the pass over the core directory.
IsCore(i) ==
  IF phase \in {"ext", "ready"} \/ ld.pass = "ext" THEN i <= ld.coreLen
  ELSE TRUE

C13_State ==
  /\ ld.exc # "none" => phase = "failed"
  /\ ld.pass = "ext" => ld.coreLen <= Len(plugins)
  /\ \A i \in DOMAIN plugins :
       IsCore(i) =>
         \A d \in DOMAIN plugins[i].plugins :
           \E j \in DOMAIN plugins :
             IsCore(j) /\ plugins[j].id = plugins[i].plugins[d]

\* C13: the pass over the core directory runs to the end of its listing
\* before the extension pass starts, the core plugins stay in front of the
\* extension plugins, a core plugin's dependencies are core plugins, and a
\* core pass that raises (MissingDependency for a name no core plugin has)
\* ends startup without an extension pass.
C13_CoreBeforeExtension ==
  [][ /\ C13_State'
      /\ (phase = "core" /\ phase' # "core") =>
           \/ phase' = "failed" /\ ld'.pass = "core"
           \/ /\ phase' = "ext"
              /\ ld.pass = "core"
              /\ ld.todo = <<>>
              /\ ld'.coreLen = Len(plugins)
      /\ ld'.pass = "ext" => phase \in {"ext", "failed"}
      /\ ld.pass = "ext" =>
           /\ ld'.pass = "ext" => ld'.coreLen = ld.coreLen
           /\ \A i \in 1..ld.coreLen : plugins'[i].id = plugins[i].id
      /\ phase = "failed" => UNCHANGED <<plugins, ld, phase>> ]_vars

C13_Witness ==
  /\ phase = "failed"
  /\ ld.pass = "core"
  /\ ld.exc = "MissingDependency"
  /\ ld.arg = NameFOO
  /\ plugins # <<>>

\* C14: every step keeps the Registry's entries and their order and only
\* loading appends; existing entries are untouched by loading, and after
\* startup only the protocol field (written by a dispatch) and the hooks'
\* own effect (during a lifecycle call) change.
C14_AppendOnly ==
  [][ /\ Len(plugins') >= Len(plugins)
      /\ \A i \in DOMAIN plugins :
           /\ [plugins'[i] EXCEPT !.protocol = plugins[i].protocol,
                                  !.active = plugins[i].active] = plugins[i]
           /\ plugins'[i].active # plugins[i].active =>
                last'.op \in {"activate", "deactivate"}
           /\ plugins'[i].protocol # plugins[i].protocol =>
                \E c \in Callers : frames[c].pc = "set" /\ frames[c].i = i
      /\ phase \in {"core", "ext"} =>
           SubSeq(plugins', 1, Len(plugins)) = plugins
      /\ phase \in {"ready", "failed"} => Len(plugins') = Len(plugins) ]_vars

C14_Witness ==
  /\ phase = "ready"
  /\ Len(plugins) = 3
  /\ ld.coreLen \in 1..2
  /\ \E i \in DOMAIN plugins : plugins[i].active
  /\ \E c \in Callers : frames[c].pc = "raised"

\* C15: every dependency reference of a Registry plugin is the instance at a
\* strictly earlier position (so none refers to the plugin itself and the
\* references form no cycle).
C15_RefsPointBack ==
  \A i \in DOMAIN plugins :
    \A d \in DOMAIN plugins[i].plugins :
      \E j \in 1..(i - 1) : plugins[j].id = plugins[i].plugins[d]

C15_Witness ==
  /\ Len(plugins) = 3
  /\ plugins[3].cls = "CB"
  /\ Matches(plugins[2], NameFOO)
  /\ plugins[3].plugins[NameFOO] = plugins[1].id

\* C16: an instance whose lower-cased name is already in the Registry is
\* dropped before its dependencies are looked at: it is not appended and
\* nothing is raised for it.
C16_DuplicateDroppedSilently ==
  \A n \in DOMAIN ld.events :
    LET e == ld.events[n]
    IN (e.outcome # "init_failed"
        /\ HasMatch(RegistryAt(e), Classes[e.cls].name)
        /\ Unmatched(e) # {})
       => /\ e.outcome = "duplicate"
          /\ ld.exc # "MissingDependency"

\* C17: a dispatch that returns has set the protocol of, and invoked, every
\* Registry plugin exactly once and in load order, whatever the earlier
\* plugins returned.
C17_NoShortCircuit ==
  \A c \in Callers :
    frames[c].pc = "returned" =>
      /\ Len(frames[c].invoked) = Len(plugins)
      /\ Len(frames[c].return_values) = Len(plugins)
      /\ \A k \in DOMAIN plugins :
           /\ frames[c].invoked[k].id = plugins[k].id
           /\ \A m \in DOMAIN plugins : plugins[m].id = plugins[k].id => m = k

C17_Witness ==
  \E c \in Callers :
    /\ frames[c].pc = "returned"
    /\ Len(frames[c].raw) = 3
    /\ frames[c].raw[2] = "False"
    /\ frames[c].raw[3] = "None"

\* C18: every step of the dispatch loop invokes the plugin it stands at,
\* activated or not (also after an aborted activate_plugins and after
\* deactivate_plugins); and a lifecycle loop called again right after itself
\* runs the hooks from the first plugin on once more.
C18_NoLifecycleGate ==
  [][ /\ (last'.op \in {"activate", "deactivate"} /\ last'.again) =>
           /\ plugins' # <<>> => last'.hooks # <<>>
           /\ \A k \in DOMAIN last'.hooks : last'.hooks[k] = plugins'[k].id
           /\ last'.status = "ok" => Len(last'.hooks) = Len(plugins')
      /\ \A c \in Callers :
           (frames[c].pc = "call" /\ frames'[c] # frames[c]) =>
             /\ Len(frames'[c].invoked) = Len(frames[c].invoked) + 1
             /\ frames'[c].invoked[Len(frames'[c].invoked)].id
                  = plugins[frames[c].i].id ]_vars

C18_Witness ==
  \E c \in Callers :
    /\ frames[c].pc = "returned"
    /\ Len(frames[c].invoked) = 3
    /\ plugins[1].active
    /\ ~plugins[3].active
    /\ Classes[plugins[2].cls].activate = "raise"

====
